---- MODULE Spec2Model ----
(***************************************************************************)
(* obsifix: walk a vault of markdown notes, rewrite each note's front      *)
(* matter (-reformat) or republish a filtered subset (-quartz), asking for *)
(* confirmation on standard input unless -force is given.                  *)
(*                                                                         *)
(* src/main.go holds two revisions of the program (lines 1-232 and lines   *)
(* 234-538).  The variable revision selects the one that runs.             *)
(*                                                                         *)
(* File contents are sequences of tokens.  A header line is one token (its *)
(* line end included); in the body <<"text">> is a run of non-space bytes  *)
(* and <<"nl">> one line end.                                              *)
(***************************************************************************)
EXTENDS Integers, Sequences, FiniteSets, TLC

VARIABLES
    revision,          \* 1: main.go lines 1-232, 2: main.go lines 234-538
    force,             \* -force
    quartz,            \* -quartz
    reformat,          \* -reformat
    fixChtimeFromGit,  \* -git-chtime
    target,            \* -target: "wd" (the default, in place) or "out"
    gitHist,           \* what `git log` answers: "ok" or "norepo" (git fails)
    files,             \* files[root][path]: the bytes of each file
    dirs,              \* directories that exist under the target root
    mtime,             \* modification time of each walked entry of wd
    initial,           \* files as they were when the current run started
    input,             \* the lines standard input supplies to a run
    stdin,             \* the lines the scanner has not read yet
    rpc,               \* reader goroutine: "scan", "send" or "exit"
    rval,              \* the value the reader is sending on inputs
    pc,                \* main goroutine: "walk", "prompt", "done", "fatal", "deadlock"
    idx,               \* index in Walk of the entry being visited
    run,               \* number of the current run of the command
    prompts,           \* paths of the prompts printed in this run, in order
    received,          \* values received from inputs in this run, in order
    outcomes,          \* compareAndWrite calls: [run, path, matter, equal, kind]
    copies             \* paths handed to copy in this run

vars == <<revision, force, quartz, reformat, fixChtimeFromGit, target, gitHist,
          files, dirs, mtime, initial, input, stdin, rpc, rval, pc, idx, run,
          prompts, received, outcomes, copies>>

flagVars == <<revision, force, quartz, reformat, fixChtimeFromGit, target,
              gitHist, input>>

\* Longest standard input supplied to a run.
MaxLines == 2

\* Number of times the command is run in succession.
MaxRuns == 2

----------------------------------------------------------------------------
(* Tokens *)

Delim == <<"---">>
NL == <<"nl">>
TXT == <<"text">>

\* os.ReadFile / os.Open of a path that does not exist.
Absent == << <<"ENOENT">> >>

\* time.Time{} and the two times the history holds for a tracked path.
ZeroTime == "zero"
CreatedTime == "tc"
LastModTime == "tm"
CloneTime == "t0"
NowTime == "now"
GitErr == "err"

----------------------------------------------------------------------------
(* The tree filepath.Walk enumerates, in lexical order. *)

Walk ==
    << [path |-> "/",               comps |-> <<>>,                    isDir |-> TRUE,  ext |-> "",    stem |-> ""],
       [path |-> "/a.md",           comps |-> <<"a.md">>,              isDir |-> FALSE, ext |-> "md",  stem |-> "a"],
       [path |-> "/assets",         comps |-> <<"assets">>,            isDir |-> TRUE,  ext |-> "",    stem |-> "assets"],
       [path |-> "/assets/p.md",    comps |-> <<"assets", "p.md">>,    isDir |-> FALSE, ext |-> "md",  stem |-> "p"],
       [path |-> "/assets/q.png",   comps |-> <<"assets", "q.png">>,   isDir |-> FALSE, ext |-> "png", stem |-> "q.png"],
       [path |-> "/b.md",           comps |-> <<"b.md">>,              isDir |-> FALSE, ext |-> "md",  stem |-> "b"],
       [path |-> "/templates",      comps |-> <<"templates">>,         isDir |-> TRUE,  ext |-> "",    stem |-> "templates"],
       [path |-> "/templates/t.md", comps |-> <<"templates", "t.md">>, isDir |-> FALSE, ext |-> "md",  stem |-> "t"] >>

Entries == {Walk[i] : i \in 1..Len(Walk)}
AllPaths == {e.path : e \in Entries}
FilePaths == {e.path : e \in {x \in Entries : ~x.isDir}}
SubDirs == {e.comps[1] : e \in {x \in Entries : x.isDir /\ Len(x.comps) = 1}}
Roots == {"wd", "out"}

\* strings.HasSuffix(info.Name(), ".md")
HasMdSuffix(e) == e.ext = "md"

\* strings.HasPrefix(contentPath, "/templates")
HasTemplatesPrefix(e) == Len(e.comps) >= 1 /\ e.comps[1] = "templates"

\* strings.HasPrefix(contentPath, "/assets")
HasAssetsPrefix(e) == Len(e.comps) >= 1 /\ e.comps[1] = "assets"

\* strings.Contains(fpath, "templates/")
ContainsTemplatesDir(e) == \E i \in 1..(Len(e.comps) - 1) : e.comps[i] = "templates"

\* path.Split(writeFpath): the directory a write to e goes to ("" is the root).
ParentDir(e) == IF Len(e.comps) >= 2 THEN e.comps[1] ELSE ""

----------------------------------------------------------------------------
(* Front matter: MatterIn / MatterOut, frontmatter.Parse and yaml encoding. *)

\* The zero value of MatterIn.  One record shape serves MatterIn
\* (kind "in") and MatterOut (kind "out").
ZeroMatterIn ==
    [kind |-> "in", created |-> ZeroTime, lastmod |-> ZeroTime, title |-> "",
     tags |-> <<>>, aliases |-> <<>>, publish |-> FALSE]

\* Datetime.UnmarshalYAML: a value in datetimeFormat parses, anything else
\* leaves the zero time and no error.
UnmarshalYAML(tok) == IF tok[2] = "datetime" THEN tok[3] ELSE ZeroTime

\* Datetime.MarshalYAML: the time in datetimeFormat.
MarshalYAML(t) == <<"created", "datetime", t>>

\* Index of the delimiter line closing a header that opens on line 1, or 0.
ClosingDelim(c) ==
    IF Len(c) >= 1 /\ c[1] = Delim /\ \E j \in 2..Len(c) : c[j] = Delim
    THEN CHOOSE j \in 2..Len(c) :
             c[j] = Delim /\ \A k \in 2..(j - 1) : c[k] # Delim
    ELSE 0

HeaderOf(c) == IF ClosingDelim(c) = 0 THEN <<>> ELSE SubSeq(c, 2, ClosingDelim(c) - 1)

\* The bytes after the header: what frontmatter.Parse returns as rest.
RestOf(c) == IF ClosingDelim(c) = 0 THEN c ELSE SubSeq(c, ClosingDelim(c) + 1, Len(c))

RECURSIVE TakeItems(_, _)
TakeItems(h, i) ==
    IF i <= Len(h) /\ h[i][1] = "-"
    THEN <<h[i][2]>> \o TakeItems(h, i + 1)
    ELSE <<>>

\* The string list under a yaml key (block style), empty when the key is
\* absent or written as [].
ListOf(h, key) ==
    IF \E i \in 1..Len(h) : h[i] = <<key>>
    THEN TakeItems(h, (CHOOSE i \in 1..Len(h) : h[i] = <<key>>) + 1)
    ELSE <<>>

\* yaml decoding fails on a malformed header.
Malformed(c) == \E i \in 1..Len(HeaderOf(c)) : HeaderOf(c)[i] = <<"?">>

\* getFrontMatterIn: the header decoded into MatterIn.  Keys that are not
\* fields of the revision's MatterIn are ignored.
ParseMatterIn(c, rev) ==
    LET h == HeaderOf(c)
        cr == {i \in 1..Len(h) : h[i][1] = "created"}
    IN  [ZeroMatterIn EXCEPT
            !.created = IF rev = 2 /\ cr # {}
                        THEN UnmarshalYAML(h[CHOOSE i \in cr : TRUE])
                        ELSE ZeroTime,
            !.tags = ListOf(h, "tags"),
            !.aliases = ListOf(h, "aliases"),
            !.publish = \E i \in 1..Len(h) : h[i] = <<"publish", "true">>]

\* A yaml string list: omitted (omitempty) or [] when empty.
EncodeList(key, xs, omitempty) ==
    IF xs = <<>>
    THEN IF omitempty THEN <<>> ELSE << <<key, "[]">> >>
    ELSE << <<key>> >> \o [i \in 1..Len(xs) |-> <<"-", xs[i]>>]

\* yaml.NewEncoder(buf).Encode(matter): the fields in struct order.
Encode(m, rev) ==
    IF m.kind = "in"
    THEN IF rev = 2
         THEN << MarshalYAML(m.created) >>
              \o EncodeList("tags", m.tags, TRUE)
              \o EncodeList("aliases", m.aliases, TRUE)
              \o (IF m.publish THEN << <<"publish", "true">> >> ELSE <<>>)
         ELSE LET body == EncodeList("aliases", m.aliases, TRUE)
                          \o EncodeList("tags", m.tags, TRUE)
                          \o (IF m.publish THEN << <<"publish", "true">> >> ELSE <<>>)
              IN  IF body = <<>> THEN << <<"{}">> >> ELSE body
    ELSE IF rev = 2
         THEN << <<"created", "rfc3339", m.created>>,
                 <<"lastmod", "rfc3339", m.lastmod>>,
                 <<"title", m.title>> >>
              \o EncodeList("tags", m.tags, FALSE)
              \o EncodeList("aliases", m.aliases, FALSE)
         ELSE << <<"title", m.title>> >>
              \o EncodeList("aliases", m.aliases, FALSE)
              \o EncodeList("tags", m.tags, FALSE)
              \o << <<"lastmod", "rfc3339", m.lastmod>> >>

RECURSIVE TrimLeft(_)
TrimLeft(c) == IF c # <<>> /\ Head(c) = NL THEN TrimLeft(Tail(c)) ELSE c

RECURSIVE TrimRight(_)
TrimRight(c) ==
    IF c # <<>> /\ c[Len(c)] = NL THEN TrimRight(SubSeq(c, 1, Len(c) - 1)) ELSE c

\* A variant that keeps the body as it was read.
TrimSpaceKeep(c) == c

\* bytes.TrimSpace(content)
TrimSpace(c) == TrimRight(TrimLeft(c))

\* buf: "---", the encoded header, "---", the trimmed body and one '\n'.
Serialize(m, content, rev) ==
    <<Delim>> \o Encode(m, rev) \o <<Delim>> \o TrimSpace(content) \o <<NL>>

----------------------------------------------------------------------------
(* Version-control history *)

\* The paths no commit has touched: git log prints nothing for them.
Untracked == {"/assets/q.png", "/templates/t.md"}

\* getGitLastMod: the time of the most recent change, the zero time when
\* git prints nothing, an error when git fails.
getGitLastMod(hist, path) ==
    IF hist = "norepo" THEN GitErr
    ELSE IF path \in Untracked THEN ZeroTime ELSE LastModTime

\* getGitCreated: the time of the commit that added the file.
getGitCreated(hist, path) ==
    IF hist = "norepo" THEN GitErr
    ELSE IF path \in Untracked THEN ZeroTime ELSE CreatedTime

----------------------------------------------------------------------------
(* The header transformation of the walk callback *)

\* for i, tag := range matterIn.Tags: "wip" becomes "draft".
RenameWip(tags) ==
    [i \in 1..Len(tags) |-> IF tags[i] = "wip" THEN "draft" ELSE tags[i]]

\* if len(matterIn.Tags) == 0: append "draft".  Revision 1 only.
InsertDraft(tags, rev) == IF rev = 1 /\ tags = <<>> THEN <<"draft">> ELSE tags

\* A variant that only looks at the publish flag.
NotPublishingFlagOnly(m) == ~m.publish

\* The publish filters: publish flag false, or a tag equal to "draft".
NotPublishing(m) ==
    \/ ~m.publish
    \/ \E i \in 1..Len(m.tags) : m.tags[i] = "draft"

\* strings.TrimSuffix(info.Name(), ".md"), with the override for the index
\* (revision 1's override ends in an emoji, written here as a word).
Title(e, rev) ==
    IF e.path = "/_index.md"
    THEN (IF rev = 2 THEN "Index" ELSE "Tikinang's 2nd (brain)")
    ELSE e.stem

\* What the callback does with a parsed document before it asks: return
\* ("return"), fail ("fatal") or go on to the confirmation ("confirm") with
\* the header to write and the always flag.
Transform(e, c, rev, isReformat, isQuartz, hist) ==
    LET m == ParseMatterIn(c, rev)
        ret == [step |-> "return", matter |-> m, always |-> FALSE]
        fatal == [step |-> "fatal", matter |-> m, always |-> FALSE]
    IN  IF isReformat
        THEN IF rev = 1 /\ ContainsTemplatesDir(e) THEN ret
             ELSE IF rev = 2 /\ getGitCreated(hist, e.path) = GitErr THEN fatal
             ELSE [step |-> "confirm",
                   matter |-> [m EXCEPT
                       !.tags = InsertDraft(RenameWip(m.tags), rev),
                       !.created = IF rev = 2 THEN getGitCreated(hist, e.path) ELSE ZeroTime],
                   always |-> FALSE]
        ELSE IF isQuartz
        THEN IF NotPublishing(m) THEN ret
             ELSE IF rev = 2 /\ getGitCreated(hist, e.path) = GitErr THEN fatal
             ELSE IF getGitLastMod(hist, e.path) = GitErr THEN fatal
             ELSE [step |-> "confirm",
                   matter |-> [kind |-> "out",
                               created |-> IF rev = 2 THEN getGitCreated(hist, e.path) ELSE ZeroTime,
                               lastmod |-> getGitLastMod(hist, e.path),
                               title |-> Title(e, rev),
                               tags |-> m.tags,
                               aliases |-> m.aliases,
                               publish |-> FALSE],
                   always |-> TRUE]
        ELSE ret

\* A variant that writes whenever it is reached.
WriteDecisionAlways(buf, original, always) ==
    IF buf # original THEN "changed" ELSE "original"

\* A variant that writes only when the always flag is set.
WriteDecisionOnlyAlways(buf, original, always) ==
    IF always /\ buf = original THEN "original" ELSE "none"

\* compareAndWrite: write buf when it differs from the file, the original
\* bytes when always is set, nothing otherwise.
WriteDecision(buf, original, always) ==
    IF buf # original THEN "changed"
    ELSE IF always THEN "original"
    ELSE "none"

\* A variant that takes every line but "n" for a yes.
ClassifyLax(line) == line # "n"

\* switch scanner.Text(): "y" sends true, every other line false.
Classify(line) == line = "y"

\* A variant that asks whatever the flag says.
NeedsConfirmAlways(f) == TRUE

\* if force { goto compareAndWrite } else { ask }
NeedsConfirm(f) == ~f

\* A variant in which a receive returns false once the reader is gone.
CanReceiveClosed(readerPc) == readerPc \in {"send", "exit"}

\* <-inputs on the unbuffered channel: the receive completes only while the
\* reader is blocked in its send.
CanReceive(readerPc) == readerPc = "send"

----------------------------------------------------------------------------
(* The vault the command is run on *)

\* A note without front matter and without a final line end.
PlainDoc == <<TXT>>

\* A note tagged "wip" with blank lines around its body and a created
\* value that is not in datetimeFormat.
WipDoc ==
    <<Delim, <<"created", "text", "someday">>, <<"tags">>, <<"-", "wip">>,
      <<"publish", "true">>, Delim, NL, TXT, NL, NL>>

\* A draft note as an earlier -reformat run of the revision left it.
DraftDoc(rev) ==
    Serialize([ZeroMatterIn EXCEPT !.created = IF rev = 2 THEN CreatedTime ELSE ZeroTime,
                                   !.tags = <<"draft">>,
                                   !.publish = TRUE],
              <<TXT>>, rev)

\* A published note as an earlier -reformat run of the revision left it.
NoteDoc(rev) ==
    Serialize([ZeroMatterIn EXCEPT !.created = IF rev = 2 THEN CreatedTime ELSE ZeroTime,
                                   !.tags = <<"note">>,
                                   !.aliases = <<"al">>,
                                   !.publish = TRUE],
              <<TXT>>, rev)

\* A note as an earlier -quartz run of the revision wrote it.
QuartzDoc(rev, stem) ==
    Serialize([kind |-> "out",
               created |-> IF rev = 2 THEN CreatedTime ELSE ZeroTime,
               lastmod |-> LastModTime, title |-> stem,
               tags |-> <<"note">>, aliases |-> <<>>, publish |-> FALSE],
              <<TXT>>, rev)

\* A note whose header is not valid yaml.
BadDoc == <<Delim, <<"?">>, Delim, TXT, NL>>

\* The contents of /a.md and /b.md the runs start from.
Vaults(rev) ==
    { <<WipDoc, NoteDoc(rev)>>,
      <<PlainDoc, WipDoc>>,
      <<NoteDoc(rev), DraftDoc(rev)>>,
      <<NoteDoc(rev), QuartzDoc(rev, "b")>>,
      <<WipDoc, BadDoc>> }

AssetDoc == <<Delim, <<"publish", "true">>, Delim, TXT, NL>>
AssetImage == << <<"bin">> >>
TemplateDoc ==
    <<Delim, <<"tags">>, <<"-", "wip">>, <<"publish", "true">>, Delim, TXT, NL>>

Lines == {"y", "n", ""}
Inputs == UNION {[1..n -> Lines] : n \in 0..MaxLines}

\* -git-chtime is run on its own; -reformat and -quartz may both be given.
Modes ==
    {m \in [reformat : BOOLEAN, quartz : BOOLEAN, chtime : BOOLEAN] :
        m.chtime => (~m.reformat /\ ~m.quartz)}

Init ==
    /\ revision \in {1, 2}
    /\ force \in BOOLEAN
    /\ \E m \in Modes :
        /\ reformat = m.reformat
        /\ quartz = m.quartz
        /\ fixChtimeFromGit = m.chtime
    /\ target \in Roots
    /\ gitHist \in {"ok", "norepo"}
    /\ \E v \in Vaults(revision) :
        files = [r \in Roots |->
                   IF r = "wd"
                   THEN [p \in FilePaths |->
                           CASE p = "/a.md" -> v[1]
                             [] p = "/b.md" -> v[2]
                             [] p = "/assets/p.md" -> AssetDoc
                             [] p = "/assets/q.png" -> AssetImage
                             [] OTHER -> TemplateDoc]
                   ELSE [p \in FilePaths |-> Absent]]
    /\ dirs \in (IF target = "wd" THEN {SubDirs} ELSE {{}, SubDirs})
    /\ mtime = [p \in AllPaths |-> CloneTime]
    /\ initial = files
    /\ input \in Inputs
    /\ stdin = input
    /\ rpc = "scan"
    /\ rval = FALSE
    /\ pc = "walk"
    /\ idx = 1
    /\ run = 1
    /\ prompts = <<>>
    /\ received = <<>>
    /\ outcomes = <<>>
    /\ copies = {}

----------------------------------------------------------------------------
(* The main goroutine: one callback per entry of the walk *)

Entry == Walk[idx]
Alive == pc \in {"walk", "prompt"}

\* The callback returns nil: filepath.Walk goes on to the next entry, and
\* main returns after the last one.
Advance ==
    /\ idx' = idx + 1
    /\ pc' = IF idx + 1 > Len(Walk) THEN "done" ELSE "walk"

\* The callback returns an error: filepath.Walk stops and main panics.
Abort == pc' = "fatal" /\ idx' = idx

\* The entry reaches getFrontMatterIn.
IsDocument(e, rev) ==
    /\ ~e.isDir
    /\ HasMdSuffix(e)
    /\ rev = 2 => (~HasTemplatesPrefix(e) /\ ~HasAssetsPrefix(e))

\* if fixChtimeFromGit { ... }
FixChtime ==
    /\ pc = "walk" /\ fixChtimeFromGit
    /\ LET gitTime == getGitLastMod(gitHist, Entry.path) IN
        IF gitTime = GitErr
        THEN Abort /\ UNCHANGED mtime
        ELSE /\ mtime' = IF gitTime # ZeroTime /\ gitTime # mtime[Entry.path]
                         THEN [mtime EXCEPT ![Entry.path] = gitTime]
                         ELSE mtime
             /\ Advance
    /\ UNCHANGED <<flagVars, files, dirs, initial, stdin, rpc, rval, run,
                   prompts, received, outcomes, copies>>

\* Directories and files without the .md suffix are passed over.
SkipEntry ==
    /\ pc = "walk" /\ ~fixChtimeFromGit
    /\ Entry.isDir \/ ~HasMdSuffix(Entry)
    /\ Advance
    /\ UNCHANGED <<flagVars, files, dirs, mtime, initial, stdin, rpc, rval, run,
                   prompts, received, outcomes, copies>>

\* Revision 2: a note under /templates is passed over before it is parsed.
SkipTemplate ==
    /\ pc = "walk" /\ ~fixChtimeFromGit
    /\ ~Entry.isDir /\ HasMdSuffix(Entry)
    /\ revision = 2 /\ HasTemplatesPrefix(Entry)
    /\ Advance
    /\ UNCHANGED <<flagVars, files, dirs, mtime, initial, stdin, rpc, rval, run,
                   prompts, received, outcomes, copies>>

\* Revision 2: copy(fpath, path.Join(target, contentPath)) for a note under
\* /assets.  os.Create fails when the directory is missing; it truncates the
\* file, so with the target the working directory the source is emptied
\* before io.Copy reads it.
CopyAsset ==
    /\ pc = "walk" /\ ~fixChtimeFromGit
    /\ ~Entry.isDir /\ HasMdSuffix(Entry)
    /\ revision = 2 /\ ~HasTemplatesPrefix(Entry) /\ HasAssetsPrefix(Entry)
    /\ copies' = copies \cup {Entry.path}
    /\ IF ParentDir(Entry) \notin dirs
       THEN Abort /\ UNCHANGED <<files, mtime>>
       ELSE /\ files' = [files EXCEPT ![target][Entry.path] =
                            IF target = "wd" THEN <<>> ELSE files["wd"][Entry.path]]
            /\ mtime' = IF target = "wd"
                        THEN [mtime EXCEPT ![Entry.path] = NowTime]
                        ELSE mtime
            /\ Advance
    /\ UNCHANGED <<flagVars, dirs, initial, stdin, rpc, rval, run,
                   prompts, received, outcomes>>

\* getFrontMatterIn returns an error.
ParseFail ==
    /\ pc = "walk" /\ ~fixChtimeFromGit
    /\ IsDocument(Entry, revision)
    /\ Malformed(files["wd"][Entry.path])
    /\ Abort
    /\ UNCHANGED <<flagVars, files, dirs, mtime, initial, stdin, rpc, rval, run,
                   prompts, received, outcomes, copies>>

\* The plan for the entry being visited.
Plan == Transform(Entry, files["wd"][Entry.path], revision, reformat, quartz, gitHist)

\* compareAndWrite: serialize, os.MkdirAll the directory, write as decided.
CompareAndWrite ==
    LET original == files["wd"][Entry.path]
        buf == Serialize(Plan.matter, RestOf(original), revision)
        kind == WriteDecision(buf, original, Plan.always)
    IN  /\ dirs' = dirs \cup ({ParentDir(Entry)} \ {""})
        /\ files' = IF kind = "changed" THEN [files EXCEPT ![target][Entry.path] = buf]
                    ELSE IF kind = "original"
                    THEN [files EXCEPT ![target][Entry.path] = original]
                    ELSE files
        /\ mtime' = IF kind # "none" /\ target = "wd"
                    THEN [mtime EXCEPT ![Entry.path] = NowTime]
                    ELSE mtime
        /\ outcomes' = Append(outcomes,
                              [run |-> run, path |-> Entry.path,
                               matter |-> Plan.matter,
                               equal |-> (buf = original), kind |-> kind])
        /\ Advance

\* The callback on a note: parse, transform, then write at once (force) or
\* print the prompt and wait for an answer.
ProcessDoc ==
    /\ pc = "walk" /\ ~fixChtimeFromGit
    /\ IsDocument(Entry, revision)
    /\ ~Malformed(files["wd"][Entry.path])
    /\ CASE Plan.step = "return" ->
              /\ Advance
              /\ UNCHANGED <<files, dirs, mtime, prompts, outcomes>>
         [] Plan.step = "fatal" ->
              /\ Abort
              /\ UNCHANGED <<files, dirs, mtime, prompts, outcomes>>
         [] OTHER ->
              IF NeedsConfirm(force)
              THEN /\ pc' = "prompt"
                   /\ prompts' = Append(prompts, Entry.path)
                   /\ UNCHANGED <<idx, files, dirs, mtime, outcomes>>
              ELSE /\ CompareAndWrite
                   /\ UNCHANGED prompts
    /\ UNCHANGED <<flagVars, initial, stdin, rpc, rval, run, received, copies>>

\* <-inputs: the reader's value arrives; true goes on to compareAndWrite,
\* false returns.
Receive ==
    /\ pc = "prompt"
    /\ CanReceive(rpc)
    /\ LET v == (rpc = "send" /\ rval) IN
        /\ received' = Append(received, v)
        /\ rpc' = IF rpc = "send" THEN "scan" ELSE rpc
        /\ IF v
           THEN CompareAndWrite
           ELSE Advance /\ UNCHANGED <<files, dirs, mtime, outcomes>>
    /\ UNCHANGED <<flagVars, initial, stdin, rval, run, prompts, copies>>

\* The reader has returned and main waits in <-inputs: no goroutine can
\* run, and the Go runtime ends the process ("all goroutines are asleep").
DeadlockAbort ==
    /\ pc = "prompt"
    /\ rpc = "exit"
    /\ pc' = "deadlock"
    /\ UNCHANGED <<flagVars, files, dirs, mtime, initial, stdin, rpc, rval, idx,
                   run, prompts, received, outcomes, copies>>

----------------------------------------------------------------------------
(* The reader goroutine *)

\* scanner.Scan(): the next line is classified and offered on inputs; at the
\* end of standard input the goroutine returns.
ReaderScan ==
    /\ Alive
    /\ rpc = "scan"
    /\ IF stdin = <<>>
       THEN rpc' = "exit" /\ UNCHANGED <<stdin, rval>>
       ELSE /\ rval' = Classify(Head(stdin))
            /\ stdin' = Tail(stdin)
            /\ rpc' = "send"
    /\ UNCHANGED <<flagVars, files, dirs, mtime, initial, pc, idx, run,
                   prompts, received, outcomes, copies>>

----------------------------------------------------------------------------
(* The same -reformat -force command run again on what the run left. *)

Restart ==
    /\ pc = "done"
    /\ run < MaxRuns
    /\ reformat /\ force
    /\ run' = run + 1
    /\ pc' = "walk"
    /\ idx' = 1
    /\ initial' = files
    /\ stdin' = input
    /\ rpc' = "scan"
    /\ rval' = FALSE
    /\ prompts' = <<>>
    /\ received' = <<>>
    /\ copies' = {}
    /\ UNCHANGED <<flagVars, files, dirs, mtime, outcomes>>

Next ==
    \/ FixChtime
    \/ SkipEntry
    \/ SkipTemplate
    \/ CopyAsset
    \/ ParseFail
    \/ ProcessDoc
    \/ Receive
    \/ DeadlockAbort
    \/ ReaderScan
    \/ Restart

Spec == Init /\ [][Next]_vars

----------------------------------------------------------------------------
(* Vocabulary of the properties *)

\* -quartz takes effect only without -reformat and -git-chtime.
PublishMode == quartz /\ ~reformat /\ ~fixChtimeFromGit
ReformatMode == reformat /\ ~fixChtimeFromGit

\* The notes of the walk that the revision parses as documents.
Documents == {e \in Entries : IsDocument(e, revision)}

\* The compareAndWrite calls of the current run.
ThisRun == {i \in 1..Len(outcomes) : outcomes[i].run = run}

\* os.WriteFile was called for the path in the current run.
Written(p) ==
    \E i \in ThisRun : outcomes[i].path = p /\ outcomes[i].kind # "none"

\* The prompt for the path was printed in the current run.
Prompted(p) == \E i \in 1..Len(prompts) : prompts[i] = p

\* The answer received for the i-th prompt was true.
Answered(p, v) ==
    \E i \in 1..Len(received) : prompts[i] = p /\ received[i] = v

\* The callback for the entry has returned in the current run.
Visited(e) ==
    \/ pc = "done"
    \/ \E i \in 1..Len(Walk) : Walk[i] = e /\ i < idx

\* The header of the note as the run found it.
HeaderAtStart(p) == ParseMatterIn(initial["wd"][p], revision)

\* The note passes the publish filters: publish is true and no tag is "draft".
Passes(p) ==
    /\ HeaderAtStart(p).publish
    /\ \A k \in 1..Len(HeaderAtStart(p).tags) : HeaderAtStart(p).tags[k] # "draft"

\* The bytes the run serializes for the note, from the file as the run found it.
NewBytes(e) ==
    Serialize(Transform(e, initial["wd"][e.path], revision, reformat, quartz,
                        gitHist).matter,
              RestOf(initial["wd"][e.path]), revision)

\* Neither root holds other bytes at the path than when the run started.
Untouched(p) == \A r \in Roots : files[r][p] = initial[r][p]

\* Lines the main goroutine has taken from the channel.
LinesTaken == Len(input) - Len(stdin) - (IF rpc = "send" THEN 1 ELSE 0)

----------------------------------------------------------------------------
(* C1 *)

\* C1 as stated: in publish mode every document with publish true and no
\* "draft" tag has been written to the output path by the end of the run.
C1_AlwaysWritten ==
    (pc = "done" /\ PublishMode) =>
        \A e \in Documents : Passes(e.path) => Written(e.path)

\* C1, amended: in publish mode every document with publish true and no
\* "draft" tag whose write is approved (by -force, or by a "y" answer to its
\* prompt) is written to the output path: the new bytes when they differ from
\* the file, the original bytes when they are the same.
C1_WrittenWhenApproved ==
    PublishMode =>
        \A e \in Documents :
            ( /\ Passes(e.path)
              /\ \/ force /\ Visited(e)
                 \/ Answered(e.path, TRUE) )
            => /\ Written(e.path)
               /\ files[target][e.path] = NewBytes(e)
               /\ \A i \in ThisRun :
                    outcomes[i].path = e.path =>
                        outcomes[i].kind =
                            (IF outcomes[i].equal THEN "original" ELSE "changed")

\* A note with publish true and the tag "wip" was written after a "y", with
\* the output root apart from the vault.
C1_Witness ==
    /\ PublishMode /\ ~force /\ target = "out"
    /\ Passes("/a.md") /\ Answered("/a.md", TRUE) /\ Written("/a.md")
    /\ files["out"]["/a.md"] # initial["wd"]["/a.md"]

----------------------------------------------------------------------------
(* C2 *)

\* C2: in publish mode a document with publish false or with a "draft" tag
\* is never written and never prompted for, whatever -force and the input
\* lines are.
C2_FilteredNeverWritten ==
    PublishMode =>
        \A e \in Documents :
            ~Passes(e.path) =>
                /\ ~Written(e.path)
                /\ ~Prompted(e.path)
                /\ Untouched(e.path)

\* A forced publish run has passed over a note with publish true and the tag
\* "draft", and has written another note.
C2_Witness ==
    /\ PublishMode /\ force /\ pc = "done"
    /\ HeaderAtStart("/b.md").publish /\ ~Passes("/b.md")
    /\ Written("/a.md")

----------------------------------------------------------------------------
(* C3 *)

\* C3: outside publish mode, a document whose serialized output equals the
\* bytes of its file is not written, whether approved by -force or by "y".
C3_NoWriteWhenUnchanged ==
    ~PublishMode =>
        /\ \A i \in 1..Len(outcomes) :
              outcomes[i].equal => outcomes[i].kind = "none"
        /\ \A e \in Documents :
              NewBytes(e) = initial["wd"][e.path] =>
                  ~Written(e.path) /\ Untouched(e.path)

\* A reformat run was answered "y" for a note that is already in the form
\* the revision writes, and wrote nothing for it.
C3_Witness ==
    /\ ReformatMode /\ ~force
    /\ Answered("/a.md", TRUE)
    /\ \E i \in ThisRun :
          outcomes[i].path = "/a.md" /\ outcomes[i].equal /\ outcomes[i].kind = "none"

----------------------------------------------------------------------------
(* C4 *)

\* C4 as stated: in a second -reformat -force run every file is as the first
\* run left it, and the run writes nothing.
C4_SecondRunNoWrite ==
    run >= 2 =>
        /\ files = initial
        /\ \A i \in ThisRun : outcomes[i].kind = "none"

\* C4, amended: in a second -reformat -force run every file is as the first
\* run left it and every header is the one the first run produced; the run
\* writes nothing when the target is the working directory (with another
\* target it writes the same bytes again).
C4_SecondRunIdentical ==
    run >= 2 =>
        /\ files = initial
        /\ \A i \in ThisRun :
              /\ target = "wd" => outcomes[i].kind = "none"
              /\ \A j \in 1..Len(outcomes) :
                    (outcomes[j].run = run - 1 /\ outcomes[j].path = outcomes[i].path)
                    => outcomes[j].matter = outcomes[i].matter

\* The second run in place has ended, and the first run had rewritten /a.md.
C4_Witness ==
    /\ run = 2 /\ pc = "done" /\ target = "wd"
    /\ \E j \in 1..Len(outcomes) :
          outcomes[j].run = 1 /\ outcomes[j].path = "/a.md" /\ outcomes[j].kind = "changed"
    /\ \E i \in ThisRun : outcomes[i].path = "/a.md"

----------------------------------------------------------------------------
(* C5 *)

\* C5: every header reformat mode produces has a tag list that is not empty
\* and holds no "wip".
C5_TagsNonEmptyNoWip ==
    ReformatMode =>
        \A i \in 1..Len(outcomes) :
            /\ outcomes[i].matter.tags # <<>>
            /\ \A k \in 1..Len(outcomes[i].matter.tags) :
                  outcomes[i].matter.tags[k] # "wip"

----------------------------------------------------------------------------
(* C6 *)

\* C6: without -force every prompt takes exactly one line, in the order the
\* lines arrive (the prompt main is waiting at has taken none yet); the
\* answer is true only for the line "y"; a document is written only after
\* the answer true, and after any other line it is left as it was and the
\* walk goes on.
C6_OneLinePerPrompt ==
    (~force /\ ~fixChtimeFromGit) =>
        /\ Len(prompts) = Len(received) + (IF pc \in {"prompt", "deadlock"} THEN 1 ELSE 0)
        /\ LinesTaken = Len(received)
        /\ \A i \in 1..Len(received) :
              /\ received[i] = (input[i] = "y")
              /\ input[i] # "y" =>
                    /\ ~Written(prompts[i])
                    /\ Untouched(prompts[i])
                    /\ \E k \in 1..Len(Walk) : Walk[k].path = prompts[i] /\ k < idx
        /\ \A e \in Documents : Written(e.path) => Answered(e.path, TRUE)

\* Two prompts were answered, the first by an empty line and the second by
\* "y"; only the second note was written.
C6_Witness ==
    /\ ~force /\ input = <<"", "y">>
    /\ Len(received) = 2
    /\ ~Written(prompts[1]) /\ Written(prompts[2])

----------------------------------------------------------------------------
(* C7 *)

\* C7: with -force no prompt is printed and nothing is received from the
\* channel: every line the reader has read is still in its hands.
C7_ForceNeverReceives ==
    force =>
        /\ prompts = <<>>
        /\ received = <<>>
        /\ LinesTaken = 0

\* A forced run has ended with a note written while the reader holds a line
\* it could not send.
C7_Witness ==
    /\ force /\ pc = "done" /\ rpc = "send"
    /\ \E e \in Documents : Written(e.path)

----------------------------------------------------------------------------
(* C8 *)

\* C8: a note under the template directory is never prompted for and never
\* written, in reformat and in publish mode, with and without -force.
C8_TemplatesUntouched ==
    \A e \in Entries :
        (HasTemplatesPrefix(e) /\ ~e.isDir) =>
            /\ ~Prompted(e.path)
            /\ \A i \in 1..Len(outcomes) : outcomes[i].path # e.path
            /\ Untouched(e.path)

----------------------------------------------------------------------------
(* C9 *)

\* C9: in every mode, at the end of a run every file under the assets prefix
\* has been copied byte for byte to the output root and was never handled as
\* a document.
C9_AssetsCopied ==
    pc = "done" =>
        \A e \in Entries :
            (HasAssetsPrefix(e) /\ ~e.isDir) =>
                /\ e.path \in copies
                /\ files[target][e.path] = initial["wd"][e.path]
                /\ ~Prompted(e.path)
                /\ \A i \in 1..Len(outcomes) : outcomes[i].path # e.path

----------------------------------------------------------------------------
(* C10 *)

\* Standard input has ended while a prompt is pending.
Starved == pc = "prompt" /\ rpc = "exit"

\* C10 as stated: a run without -force ends only if standard input supplied
\* a line for every prompt, and a main goroutine starved at a prompt stays at
\* that prompt for ever.
C10_BlockedForever ==
    [][ /\ (pc' = "done" /\ ~force) => Len(prompts') <= Len(input')
        /\ Starved => (pc' = "prompt" /\ UNCHANGED <<idx, files, outcomes>>)
      ]_vars

\* C10, amended: a run without -force ends only if standard input supplied
\* a line for every prompt; a main goroutine starved at a prompt never
\* receives: the Go runtime finds every goroutine asleep and ends the
\* process, and no later document is processed or written.
C10_NoProgressWhenStarved ==
    [][ /\ (pc' = "done" /\ ~force) => Len(prompts') <= Len(input')
        /\ Starved => /\ pc' \in {"prompt", "deadlock"}
                      /\ UNCHANGED <<idx, files, outcomes, prompts, received>>
        /\ pc # "deadlock"
      ]_vars

\* The process was ended at the prompt for /b.md after /a.md had been
\* rewritten in place.
C10_Witness ==
    /\ pc = "deadlock" /\ Entry.path = "/b.md"
    /\ Written("/a.md") /\ files["wd"]["/a.md"] # initial["wd"]["/a.md"]
    /\ Untouched("/b.md")

====
